---- MODULE Spec2Model ----
(***************************************************************************)
(* Model of ResumeCoach/backend/handler.py: the Lambda entry point, its    *)
(* router, the session store adapter over the sessions table, the analyze  *)
(* and chat handlers and the default-item catalog handlers.                *)
(*                                                                         *)
(* Conventions.                                                            *)
(*  - A Python dict is a function whose DOMAIN is the set of keys present. *)
(*  - Python None and the empty string are both falsy; a text value that   *)
(*    is None is modelled by the key being absent from its dict.           *)
(*  - Time is counted in hours since the first request; the ttl attribute  *)
(*    (epoch seconds in the code) is kept in the same unit.                *)
(*  - A path is the sequence of its "/" separators and the words between   *)
(*    them: "/items/a" is <<"/", "items", "/", "a">>.                      *)
(*  - uuid.uuid4() is modelled as a generator of fresh identifiers: the    *)
(*    n-th identifier generated is ToString(n).                            *)
(*  - A request is one process.  It interleaves with other requests and    *)
(*    with the store's TTL deleter only between its calls to the sessions  *)
(*    table, so /chat is two steps (up to and including get_item, then the *)
(*    model call and put_item) and every other route is one step.  The     *)
(*    step that completes a request records it in last; handing the        *)
(*    response back to the caller is the step Respond, which clears it.    *)
(***************************************************************************)
EXTENDS Integers, Sequences, FiniteSets, Bags, TLC

VARIABLES
    llm,        \* TRUE iff the module-level ChatOpenAI client was constructed
    sessions,   \* the sessions table: sessionId -> stored item
    items,      \* the items table, in scan order
    now,        \* the clock, in hours
    nextId,     \* number of uuid4 identifiers generated so far
    inflight,   \* the bag of /chat requests between their get_item and put_item
    last,       \* the request that has just completed, with its response
    expired     \* sessionIds whose item the store's TTL deleter has removed

vars == <<llm, sessions, items, now, nextId, inflight, last, expired>>

\* ------------------------------------------------------------------ bounds
MaxSessions == 2
MaxReqs == 2
MaxHist == 4
MaxTime == 26
MaxPage == 2
RouterSessions == 1
RouterReqs == 1
CorruptSessions == 1
CorruptReqs == 1

\* --------------------------------------------------------------- constants
SESSION_TTL_HOURS == 24

CORS_HEADERS ==
    [h \in {"Content-Type", "Access-Control-Allow-Origin",
            "Access-Control-Allow-Headers", "Access-Control-Allow-Methods",
            "Access-Control-Expose-Headers"} |->
        CASE h = "Content-Type" -> "application/json"
          [] h = "Access-Control-Allow-Origin" -> "*"
          [] h = "Access-Control-Allow-Headers" ->
                "Content-Type,X-Amz-Date,Authorization,X-Api-Key,X-Amz-Security-Token,X-Session-Id"
          [] h = "Access-Control-Allow-Methods" -> "OPTIONS,POST,GET"
          [] h = "Access-Control-Expose-Headers" -> "X-Session-Id"]

\* ------------------------------------------------------------ dict helpers
EmptyDict == [k \in {} |-> ""]

\* d with key k set to v (dict item assignment)
Put(d, k, v) == [x \in DOMAIN d \cup {k} |-> IF x = k THEN v ELSE d[x]]

\* d without key k (del d[k])
Del(d, k) == [x \in DOMAIN d \ {k} |-> d[x]]

\* bool(d.get(k)) for a text value
Truthy(d, k) == k \in DOMAIN d /\ d[k] # ""

Min(a, b) == IF a <= b THEN a ELSE b

\* ---------------------------------------------------------------- responses
\* create_response(status_code, body, session_id); session_id = "" stands for
\* the default None (both falsy).  isdict tells whether body is a dict.
create_response(status_code, body, session_id) ==
    LET isdict == body.kind = "dict"
        newBody == IF session_id # "" /\ isdict
                   THEN [body EXCEPT !.dict = Put(body.dict, "sessionId", session_id)]
                   ELSE body
        response_headers == IF session_id # ""
                            THEN Put(CORS_HEADERS, "X-Session-Id", session_id)
                            ELSE CORS_HEADERS
    IN  [statusCode |-> status_code, headers |-> response_headers, body |-> newBody]

DictBody(d) == [kind |-> "dict", dict |-> d, list |-> <<>>]
ListBody(l) == [kind |-> "list", dict |-> EmptyDict, list |-> l]
ErrorBody(msg) == DictBody([error |-> msg])

\* A fault that leaves the entry point: no response is produced.
Propagated(exc) ==
    [statusCode |-> 0, headers |-> EmptyDict, body |-> DictBody([exception |-> exc])]

\* -------------------------------------------------------------- serialising
HumanMessage(content) == [type |-> "human", content |-> content]
AIMessage(content) == [type |-> "ai", content |-> content]

IsMessageList(h) ==
    \A i \in 1..Len(h) : h[i].type \in {"human", "ai"}

\* base64.b64encode(pickle.dumps(history)).decode('utf-8')
EncodeHistory(history) == [codec |-> "b64-pickle", payload |-> history]

\* The exception base64.b64decode or pickle.loads raises on the blob, "" when
\* they return a value.  The codec of a blob that save_session did not write
\* names what is wrong with it.
pickle_error(blob) ==
    CASE blob.codec = "b64-pickle" -> ""
      [] blob.codec = "bad-padding" -> "binascii.Error"
      [] blob.codec = "bad-pickle" -> "UnpicklingError"
      [] blob.codec = "empty" -> "EOFError"
      [] blob.codec = "missing-module" -> "ModuleNotFoundError"
      [] OTHER -> "ValueError"

\* The exceptions the inner except clause of get_session names (line 114)
CaughtOnDecode == {"UnpicklingError", "TypeError", "binascii.Error", "AttributeError"}

\* pickle.loads(base64.b64decode(blob)), with the recovery of lines 108-115:
\* anything that is not a list of messages is replaced by the empty history.
DecodeHistory(blob) ==
    IF blob.codec = "b64-pickle" /\ IsMessageList(blob.payload)
    THEN blob.payload
    ELSE <<>>

\* ------------------------------------------------------------ session store
\* Mutant of get_session: a key without an item yields an empty session
\* instead of None.
get_session_no_item_check(session_id, readOk) ==
    IF session_id = ""
    THEN [found |-> FALSE, item |-> EmptyDict, reads |-> 0, fault |-> ""]
    ELSE IF ~readOk
    THEN [found |-> FALSE, item |-> EmptyDict, reads |-> 1, fault |-> "read"]
    ELSE LET item == IF session_id \in DOMAIN sessions
                     THEN sessions[session_id] ELSE EmptyDict
             history == IF "chat_history_blob" \in DOMAIN item
                        THEN DecodeHistory(item["chat_history_blob"])
                        ELSE <<>>
         IN  [found |-> TRUE,
              item |-> Del(Put(item, "chat_history", history), "chat_history_blob"),
              reads |-> 1, fault |-> ""]

\* get_session(session_id): found is FALSE for the return value None.  readOk
\* is the outcome of get_item; reads counts the calls of get_item and fault
\* names what failed, if anything: "read" for get_item, "decode" for an
\* exception of the deserialization that the inner except clause does not name
\* and the outer one (lines 128-130) turns into None.
get_session(session_id, readOk) ==
    IF session_id = ""
    THEN [found |-> FALSE, item |-> EmptyDict, reads |-> 0, fault |-> ""]
    ELSE IF ~readOk
    THEN [found |-> FALSE, item |-> EmptyDict, reads |-> 1, fault |-> "read"]
    ELSE IF session_id \notin DOMAIN sessions
    THEN [found |-> FALSE, item |-> EmptyDict, reads |-> 1, fault |-> ""]
    ELSE LET item == sessions[session_id]
             history == IF "chat_history_blob" \in DOMAIN item
                        THEN DecodeHistory(item["chat_history_blob"])
                        ELSE <<>>
         IN  IF /\ "chat_history_blob" \in DOMAIN item
                /\ pickle_error(item["chat_history_blob"]) \notin CaughtOnDecode \cup {""}
             THEN [found |-> FALSE, item |-> EmptyDict, reads |-> 1, fault |-> "decode"]
             ELSE [found |-> TRUE,
                   item |-> Del(Put(item, "chat_history", history), "chat_history_blob"),
                   reads |-> 1, fault |-> ""]

\* The item save_session hands to put_item (lines 141-162).
item_to_save(session_data) ==
    LET withTtl == Put(Put(session_data, "ttl", now + SESSION_TTL_HOURS),
                       "lastUpdated", now)
    IN  IF "chat_history" \in DOMAIN withTtl
        THEN IF IsMessageList(withTtl["chat_history"])
             THEN Del(Put(withTtl, "chat_history_blob",
                          EncodeHistory(withTtl["chat_history"])),
                      "chat_history")
             ELSE Del(Del(withTtl, "chat_history_blob"), "chat_history")
        ELSE withTtl

\* Mutant of save_session: a conditional write, refused when the stored
\* history is not a prefix of the history to be saved.
save_session_if_unchanged(session_data, writeOk) ==
    LET sid == session_data["sessionId"]
        new == item_to_save(session_data)
        old == IF sid \in DOMAIN sessions /\ "chat_history_blob" \in DOMAIN sessions[sid]
               THEN DecodeHistory(sessions[sid]["chat_history_blob"])
               ELSE <<>>
        mine == IF "chat_history_blob" \in DOMAIN new
                THEN DecodeHistory(new["chat_history_blob"])
                ELSE <<>>
    IN  IF writeOk /\ Len(old) <= Len(mine) /\ SubSeq(mine, 1, Len(old)) = old
        THEN Put(sessions, sid, new)
        ELSE sessions

\* save_session(session_data): the table after the call.  A failing put_item
\* is logged and swallowed (lines 166-168), leaving the table as it was.
save_session(session_data, writeOk) ==
    IF "sessionId" \notin DOMAIN session_data
    THEN sessions
    ELSE IF writeOk
    THEN Put(sessions, session_data["sessionId"], item_to_save(session_data))
    ELSE sessions

\* ------------------------------------------------------------------- events
\* event.get('body', '{}') followed by json.loads: exc names the exception
\* raised ("" for none); isdict tells whether the parsed value is a dict.
json_loads_body(event) ==
    CASE event.body.kind = "absent" ->
            [exc |-> "", isdict |-> TRUE, dict |-> EmptyDict]
      [] event.body.kind = "null" ->
            [exc |-> "TypeError", isdict |-> FALSE, dict |-> EmptyDict]
      [] event.body.kind = "invalid" ->
            [exc |-> "JSONDecodeError", isdict |-> FALSE, dict |-> EmptyDict]
      [] event.body.kind = "nonobject" ->
            [exc |-> "", isdict |-> FALSE, dict |-> EmptyDict]
      [] OTHER ->
            [exc |-> "", isdict |-> TRUE, dict |-> event.body.obj]

\* What one handler call did: its response, the sessions table and the
\* identifier counter after it, how often it called the model (llmCalls),
\* get_item (reads) and put_item (writes) on the sessions table, and which of
\* these calls, or of the calls on the items table, failed ("llm", "read",
\* "write", "scan", "decode" for the deserialization, or "" for none).
Result(resp, store, ids, llmCalls, reads, writes, fault) ==
    [resp |-> resp, store |-> store, ids |-> ids,
     llmCalls |-> llmCalls, reads |-> reads, writes |-> writes, fault |-> fault]

NoEffect(resp) == Result(resp, sessions, nextId, 0, 0, 0, "")

\* Mutant of llm_unavailable: the handlers do not test the client.
llm_unavailable_unchecked == FALSE

\* `if not llm` (lines 229 and 293)
llm_unavailable == ~llm

uuid4(n) == ToString(n)

\* ------------------------------------------------------------------ analyze
\* analyze_resume(event).  llmOut is the outcome of chain.invoke, writeOk the
\* outcome of put_item.
analyze_resume(event, llmOut, writeOk) ==
    IF llm_unavailable
    THEN NoEffect(create_response(503,
            ErrorBody("LLM service is unavailable. Check API Key configuration."), ""))
    ELSE LET parsed == json_loads_body(event)
             body == parsed.dict
         IN  IF parsed.exc = "JSONDecodeError"
             THEN NoEffect(create_response(400,
                     ErrorBody("Invalid JSON format in request body"), ""))
             ELSE IF parsed.exc # "" \/ ~parsed.isdict
             THEN NoEffect(create_response(500,
                     ErrorBody("Internal server error during analysis"), ""))
             ELSE IF ~Truthy(body, "resume") \/ ~Truthy(body, "job_description")
             THEN NoEffect(create_response(400,
                     ErrorBody("Both resume and job_description are required."), ""))
             ELSE IF ~llmOut.ok
             THEN Result(create_response(500,
                     ErrorBody("Internal server error during analysis"), ""),
                     sessions, nextId, 1, 0, 0, "llm")
             ELSE LET new_session_id == uuid4(nextId + 1)
                      session_data ==
                         [sessionId |-> new_session_id,
                          resume |-> body["resume"],
                          jobDescription |-> body["job_description"],
                          initialAnalysis |-> llmOut.text,
                          chat_history |-> <<>>,
                          createdAt |-> now]
                  IN  Result(create_response(200,
                                 DictBody([analysis |-> llmOut.text]), new_session_id),
                             save_session(session_data, writeOk),
                             nextId + 1, 1, 0, 1,
                             IF writeOk THEN "" ELSE "write")

\* --------------------------------------------------------------------- chat
\* chat_follow_up(event) up to the model call (lines 293-324).  proceed is
\* TRUE when the request goes on to the model call, with the session loaded.
chat_load(event, readOk) ==
    LET stop(resp, reads, fault) ==
            [proceed |-> FALSE, resp |-> resp, question |-> "",
             session_data |-> EmptyDict, reads |-> reads, fault |-> fault]
    IN
    IF llm_unavailable
    THEN stop(create_response(503,
            ErrorBody("LLM service is unavailable. Check API Key configuration."), ""), 0, "")
    ELSE LET parsed == json_loads_body(event)
             body == parsed.dict
         IN  IF parsed.exc = "JSONDecodeError"
             THEN stop(create_response(400,
                     ErrorBody("Invalid JSON format in request body"), ""), 0, "")
             ELSE IF parsed.exc # "" \/ ~parsed.isdict
             THEN stop(create_response(500,
                     ErrorBody("Internal server error during chat"), ""), 0, "")
             ELSE IF ~Truthy(body, "question") \/ ~Truthy(body, "sessionId")
             THEN stop(create_response(400,
                     ErrorBody("Missing required fields: question, sessionId."), ""), 0, "")
             ELSE LET loaded == get_session(body["sessionId"], readOk)
                      session_data == loaded.item
                  IN  IF ~loaded.found
                      THEN stop(create_response(404,
                              ErrorBody("Session not found or expired. Please start a new analysis."),
                              ""), loaded.reads, loaded.fault)
                      ELSE IF ~(Truthy(session_data, "resume")
                                /\ Truthy(session_data, "jobDescription")
                                /\ Truthy(session_data, "initialAnalysis"))
                      THEN stop(create_response(500,
                              ErrorBody("Session data is corrupted. Please start a new analysis."),
                              ""), loaded.reads, "")
                      ELSE [proceed |-> TRUE,
                            resp |-> create_response(0, ErrorBody(""), ""),
                            question |-> body["question"],
                            session_data |-> session_data,
                            reads |-> loaded.reads, fault |-> ""]

\* Mutant of chat_reply: a failed model call is retried once, and the retry
\* answers.
chat_reply_retry(req, llmOut, writeOk) ==
    LET answer_text == IF llmOut.ok THEN llmOut.text ELSE "answer"
        history == Append(Append(req.session_data["chat_history"],
                                 HumanMessage(req.question)),
                          AIMessage(answer_text))
        session_data == Put(req.session_data, "chat_history", history)
    IN  Result(create_response(200, DictBody([answer |-> answer_text]), ""),
               save_session(session_data, writeOk),
               nextId, IF llmOut.ok THEN 1 ELSE 2, req.reads, 1,
               IF writeOk THEN "" ELSE "write")

\* Mutant of chat_reply: the answer is also stored as the initial analysis.
chat_reply_updates_analysis(req, llmOut, writeOk) ==
    IF ~llmOut.ok
    THEN Result(create_response(500,
            ErrorBody("Internal server error during chat"), ""),
            sessions, nextId, 1, req.reads, 0, "llm")
    ELSE LET history == Append(Append(req.session_data["chat_history"],
                                      HumanMessage(req.question)),
                               AIMessage(llmOut.text))
             session_data == Put(Put(req.session_data, "chat_history", history),
                                 "initialAnalysis", llmOut.text)
         IN  Result(create_response(200, DictBody([answer |-> llmOut.text]), ""),
                    save_session(session_data, writeOk),
                    nextId, 1, req.reads, 1,
                    IF writeOk THEN "" ELSE "write")

\* chat_follow_up from the model call on (lines 326-388), for the request req
\* that chat_load let proceed.
chat_reply(req, llmOut, writeOk) ==
    IF ~llmOut.ok
    THEN Result(create_response(500,
            ErrorBody("Internal server error during chat"), ""),
            sessions, nextId, 1, req.reads, 0, "llm")
    ELSE LET current_user_message == HumanMessage(req.question)
             current_ai_message == AIMessage(llmOut.text)
             history == Append(Append(req.session_data["chat_history"],
                                      current_user_message),
                               current_ai_message)
             session_data == Put(req.session_data, "chat_history", history)
         IN  Result(create_response(200, DictBody([answer |-> llmOut.text]), ""),
                    save_session(session_data, writeOk),
                    nextId, 1, req.reads, 1,
                    IF writeOk THEN "" ELSE "write")

\* ------------------------------------------------------------------ catalog
\* ProjectionExpression='id, #nm'
Project(item) == [k \in DOMAIN item \cap {"id", "name"} |-> item[k]]

RECURSIVE ProjectAll(_)
ProjectAll(page) ==
    IF page = <<>> THEN <<>>
    ELSE <<Project(Head(page))>> \o ProjectAll(Tail(page))

\* One items_table.scan call starting at position start: a page of at most
\* pageSize items, with LastEvaluatedKey when items remain after it.
scan(start, pageSize) ==
    LET stop == Min(start + pageSize - 1, Len(items))
    IN  [Items |-> ProjectAll(SubSeq(items, start, stop)),
         LastEvaluatedKey |-> stop < Len(items),
         next |-> stop + 1]

\* Mutant of scan_loop: LastEvaluatedKey is ignored, only the first page is
\* read.
scan_first_page_only(start, pageSize, callNo, failCall) ==
    IF callNo = failCall
    THEN [ok |-> FALSE, items |-> <<>>]
    ELSE [ok |-> TRUE, items |-> scan(start, pageSize).Items]

\* The scan and its pagination loop (lines 178-192); failCall is the number of
\* the scan call that raises, 0 when none does.
RECURSIVE scan_loop(_, _, _, _)
scan_loop(start, pageSize, callNo, failCall) ==
    IF callNo = failCall
    THEN [ok |-> FALSE, items |-> <<>>]
    ELSE LET response == scan(start, pageSize)
         IN  IF response.LastEvaluatedKey
             THEN LET rest == scan_loop(response.next, pageSize, callNo + 1, failCall)
                  IN  [ok |-> rest.ok, items |-> response.Items \o rest.items]
             ELSE [ok |-> TRUE, items |-> response.Items]

RECURSIVE valid_items(_)
valid_items(scanned) ==
    IF scanned = <<>> THEN <<>>
    ELSE IF "id" \in DOMAIN Head(scanned) /\ "name" \in DOMAIN Head(scanned)
         THEN <<Head(scanned)>> \o valid_items(Tail(scanned))
         ELSE valid_items(Tail(scanned))

\* get_all_default_items(event)
get_all_default_items(pageSize, failCall) ==
    LET scanned == scan_loop(1, pageSize, 1, failCall)
    IN  IF scanned.ok
        THEN NoEffect(create_response(200, ListBody(valid_items(scanned.items)), ""))
        ELSE Result(create_response(500,
                ErrorBody("Internal server error while fetching default items list"), ""),
                sessions, nextId, 0, 0, 0, "scan")

\* Mutant of ItemsWithId: get_item ignores the key.
ItemsWithId_any(item_id) ==
    {i \in 1..Len(items) : TRUE}

\* items_table.get_item(Key={'id': item_id}): the items with that key
ItemsWithId(item_id) ==
    {i \in 1..Len(items) : items[i]["id"] = item_id}

\* get_default_item(event)
get_default_item(event, readOk) ==
    IF event.pathParameters.kind = "null"
    THEN NoEffect(create_response(500,
            ErrorBody("Internal server error while fetching default item"), ""))
    ELSE IF event.pathParameters.kind = "absent"
            \/ "id" \notin DOMAIN event.pathParameters.dict
    THEN NoEffect(create_response(400, ErrorBody("Missing 'id' in request path"), ""))
    ELSE LET item_id == event.pathParameters.dict["id"]
             found == ItemsWithId(item_id)
         IN  IF ~readOk
             THEN Result(create_response(500,
                     ErrorBody("Internal server error while fetching default item"), ""),
                     sessions, nextId, 0, 0, 0, "read")
             ELSE IF found # {}
             THEN LET item == items[CHOOSE i \in found : TRUE]
                  IN  NoEffect(create_response(200,
                        DictBody([id |-> item["id"],
                                  content |-> IF "content" \in DOMAIN item
                                              THEN item["content"]
                                              ELSE "Error: Content missing"]), ""))
             ELSE NoEffect(create_response(404,
                     ErrorBody("Default item content not found"), ""))

\* ------------------------------------------------------------------- router
\* str.startswith
StartsWith(path, prefix) ==
    /\ Len(path) >= Len(prefix)
    /\ SubSeq(path, 1, Len(prefix)) = prefix

\* str.split('/'): the pieces between the separators, "" where there is none
RECURSIVE SplitFrom(_, _, _)
SplitFrom(path, piece, parts) ==
    IF path = <<>> THEN Append(parts, piece)
    ELSE IF Head(path) = "/"
         THEN SplitFrom(Tail(path), "", Append(parts, piece))
         ELSE SplitFrom(Tail(path), Head(path), parts)

Split(path) == SplitFrom(path, "", <<>>)

\* The routing logic of handler (lines 395-419): the name of the function the
\* event is dispatched to, "bad_request" / "not_found" for the two responses
\* the router gives itself, "raise" when the routing code raises.
route(event) ==
    IF ~event.hasContext
    THEN "raise"
    ELSE LET http_method == event.method
             path == event.path
         IN  IF path = <<"/", "analyze">> /\ http_method = "POST"
             THEN "analyze_resume"
             ELSE IF path = <<"/", "chat">> /\ http_method = "POST"
             THEN "chat_follow_up"
             ELSE IF path = <<"/", "items">> /\ http_method = "GET"
             THEN "get_all_default_items"
             ELSE IF StartsWith(path, <<"/", "items", "/">>) /\ http_method = "GET"
             THEN IF Len(Split(path)) # 3
                  THEN "bad_request"
                  ELSE IF event.pathParameters.kind = "null"
                  THEN "raise"
                  ELSE IF Truthy(event.pathParameters.dict, "id")
                  THEN "get_default_item"
                  ELSE "bad_request"
             ELSE "not_found"

\* Mutant of handler_except: the entry point has no catch-all.
handler_except_none(exc) == Propagated(exc)

\* The catch-all of handler (lines 421-424).
handler_except(exc) ==
    create_response(500, ErrorBody("Internal Server Error"), "")

\* The responses handler gives without calling a handler function.
handler_own(event) ==
    CASE route(event) = "bad_request" ->
            create_response(400, ErrorBody("Invalid request path for default item."), "")
      [] route(event) = "not_found" ->
            create_response(404, ErrorBody("Not Found"), "")
      [] OTHER -> handler_except("Exception")

\* ------------------------------------------------------------------- inputs
\* Absent marks, while the input sets are built, a key that is left out.
Absent == "<absent>"

Opt(k, v) == IF v = Absent THEN EmptyDict ELSE [x \in {k} |-> v]

Merge(d1, d2) == [x \in DOMAIN d1 \cup DOMAIN d2 |-> IF x \in DOMAIN d2 THEN d2[x] ELSE d1[x]]

BodyOf(kind) == [kind |-> kind, obj |-> EmptyDict]
BodyObj(d) == [kind |-> "object", obj |-> d]
OtherBodies == {BodyOf("absent"), BodyOf("null"), BodyOf("invalid"), BodyOf("nonobject")}

PPOf(kind) == [kind |-> kind, dict |-> EmptyDict]
PPDict(d) == [kind |-> "dict", dict |-> d]

Ev(method, path, pp, body) ==
    [hasContext |-> TRUE, method |-> method, path |-> path,
     pathParameters |-> pp, body |-> body]

\* An event without requestContext.http
NoContextEvent ==
    [hasContext |-> FALSE, method |-> "", path |-> <<>>,
     pathParameters |-> PPOf("absent"), body |-> BodyOf("absent")]

SessionIds == {uuid4(n) : n \in 1..MaxSessions}
UnknownId == "unknown"

\* The outcomes of chain.invoke: it raises, or returns a text.
LlmOutcomes(texts) ==
    {[ok |-> FALSE, text |-> ""]} \cup {[ok |-> TRUE, text |-> t] : t \in texts}
AnalysisOutcomes == LlmOutcomes({"", "analysis"})
AnswerOutcomes == LlmOutcomes({"answer"})

AnalyzeBodies ==
    OtherBodies \cup
    {BodyObj(Merge(Opt("resume", r), Opt("job_description", j))) :
        r \in {Absent, "", "cv"}, j \in {Absent, "", "jd"}}

ChatBodies ==
    OtherBodies \cup
    {BodyObj(Merge(Opt("question", q), Opt("sessionId", sid))) :
        q \in {Absent, "", "q1", "q2"},
        sid \in {Absent, "", UnknownId} \cup SessionIds}

AnalyzeEvents == {Ev("POST", <<"/", "analyze">>, PPOf("absent"), b) : b \in AnalyzeBodies}
ChatEvents == {Ev("POST", <<"/", "chat">>, PPOf("absent"), b) : b \in ChatBodies}
ListEvent == Ev("GET", <<"/", "items">>, PPOf("absent"), BodyOf("absent"))

ItemPaths ==
    {<<"/", "items", "/", "a">>, <<"/", "items", "/">>,
     <<"/", "items", "/", "a", "/", "b">>, <<"/", "items", "/", "zz">>}

PathParams ==
    {PPOf("absent"), PPOf("null"), PPDict(EmptyDict)} \cup
    {PPDict([id |-> i]) : i \in {"", "a", "c", "zz"}}

ItemEvents == {Ev("GET", p, pp, BodyOf("absent")) : p \in ItemPaths, pp \in PathParams}

OtherEvents ==
    {Ev(m, p, PPOf("absent"), BodyOf("absent")) :
        m \in {"GET", "POST", "DELETE"},
        p \in {<<"/", "analyze">>, <<"/", "chat">>, <<"/", "items">>,
               <<"/", "items", "/", "a">>, <<"/", "analyze", "/">>,
               <<"/", "itemsx">>, <<"/">>}}

\* Every event of the model
Events ==
    AnalyzeEvents \cup ChatEvents \cup {ListEvent} \cup ItemEvents
        \cup OtherEvents \cup {NoContextEvent}

\* The events of the session life cycle, with one event for each other route
SessionEvents ==
    AnalyzeEvents \cup ChatEvents
        \cup {ListEvent,
              Ev("GET", <<"/", "items", "/", "a">>, PPDict([id |-> "a"]), BodyOf("absent")),
              Ev("GET", <<"/">>, PPOf("absent"), BodyOf("absent"))}

Item1 == [id |-> "a", name |-> "A", content |-> "text a"]
Item2 == [id |-> "b", content |-> "text b"]
Item3 == [id |-> "c", name |-> "C"]
DefaultCatalog == <<Item1, Item2, Item3>>
Catalogs == {DefaultCatalog, <<Item3, Item1>>}

TickSteps == {SESSION_TTL_HOURS \div 2, SESSION_TTL_HOURS + 1}

\* Blobs that save_session did not write: a list holding something that is
\* not a message, and texts that b64decode or pickle.loads reject.
DamagedBlobs ==
    {EncodeHistory(<<[type |-> "other", content |-> "x"]>>)} \cup
    {[codec |-> c, payload |-> <<>>] :
        c \in {"bad-padding", "bad-pickle", "empty", "missing-module"}}

\* -------------------------------------------------------------------- state
NoLast ==
    [by |-> "", stage |-> "", event |-> NoContextEvent, resp |-> Propagated(""),
     llmCalls |-> 0, reads |-> 0, writes |-> 0, fault |-> "",
     before |-> EmptyDict]

\* The record of a completed request: by names the function that produced the
\* response, stage the step of the request that completed it, before the
\* sessions table as the step found it.
Completed(by, stage, event, r) ==
    [by |-> by, stage |-> stage, event |-> event, resp |-> r.resp,
     llmCalls |-> r.llmCalls, reads |-> r.reads, writes |-> r.writes,
     fault |-> r.fault, before |-> sessions]

InitWith(catalogs) ==
    /\ llm \in BOOLEAN
    /\ sessions = EmptyDict
    /\ items \in catalogs
    /\ now = 0
    /\ nextId = 0
    /\ inflight = EmptyBag
    /\ last = NoLast
    /\ expired = {}

\* ------------------------------------------------------------------ actions
\* POST /analyze, the whole request.
Analyze(E, maxSessions) ==
    \E event \in E, llmOut \in AnalysisOutcomes, writeOk \in BOOLEAN :
        /\ last = NoLast
        /\ route(event) = "analyze_resume"
        /\ LET r == analyze_resume(event, llmOut, writeOk)
           IN  /\ r.ids <= maxSessions
               /\ sessions' = r.store
               /\ nextId' = r.ids
               /\ last' = Completed("analyze_resume", "whole", event, r)
        /\ UNCHANGED <<llm, items, now, inflight, expired>>

\* POST /chat up to and including the read of the session: the request either
\* ends here with an error response or goes on to the model call.
ChatBegin(E, maxReqs) ==
    \E event \in E, readOk \in BOOLEAN :
        /\ last = NoLast
        /\ route(event) = "chat_follow_up"
        /\ LET l == chat_load(event, readOk)
           IN  IF l.proceed
               THEN /\ BagCardinality(inflight) < maxReqs
                    /\ Len(l.session_data["chat_history"]) + 2 <= MaxHist
                    /\ inflight' = inflight (+) SetToBag({
                            [event |-> event, question |-> l.question,
                             session_data |-> l.session_data, reads |-> l.reads]})
                    /\ last' = NoLast
               ELSE /\ inflight' = inflight
                    /\ last' = Completed("chat_follow_up", "load", event,
                                         Result(l.resp, sessions, nextId, 0, l.reads, 0, l.fault))
        /\ UNCHANGED <<llm, sessions, items, now, nextId, expired>>

\* POST /chat from the model call to the response.
ChatFinish ==
    \E req \in BagToSet(inflight), llmOut \in AnswerOutcomes, writeOk \in BOOLEAN :
        /\ last = NoLast
        /\ LET r == chat_reply(req, llmOut, writeOk)
           IN  /\ sessions' = r.store
               /\ last' = Completed("chat_follow_up", "reply", req.event, r)
        /\ inflight' = inflight (-) SetToBag({req})
        /\ UNCHANGED <<llm, items, now, nextId, expired>>

\* GET /items
ListItems(E) ==
    \E event \in E, pageSize \in 1..MaxPage, failCall \in 0..Len(items) :
        /\ last = NoLast
        /\ route(event) = "get_all_default_items"
        /\ last' = Completed("get_all_default_items", "whole", event,
                             get_all_default_items(pageSize, failCall))
        /\ UNCHANGED <<llm, sessions, items, now, nextId, inflight, expired>>

\* GET /items/{id}
GetItem(E) ==
    \E event \in E, readOk \in BOOLEAN :
        /\ last = NoLast
        /\ route(event) = "get_default_item"
        /\ last' = Completed("get_default_item", "whole", event,
                             get_default_item(event, readOk))
        /\ UNCHANGED <<llm, sessions, items, now, nextId, inflight, expired>>

\* Every event the router answers itself: 400, 404, or 500 from its catch-all.
Unrouted(E) ==
    \E event \in E :
        /\ last = NoLast
        /\ route(event) \in {"bad_request", "not_found", "raise"}
        /\ last' = Completed("handler", "whole", event, NoEffect(handler_own(event)))
        /\ UNCHANGED <<llm, sessions, items, now, nextId, inflight, expired>>

\* The response of the completed request is handed back to the caller.
Respond ==
    /\ last # NoLast
    /\ last' = NoLast
    /\ UNCHANGED <<llm, sessions, items, now, nextId, inflight, expired>>

\* Time passes.
Tick ==
    \E d \in TickSteps :
        /\ last = NoLast
        /\ now + d <= MaxTime
        /\ now' = now + d
        /\ UNCHANGED <<llm, sessions, items, nextId, inflight, last, expired>>

\* The store's TTL deleter removes an item whose ttl has passed, at some time
\* after it has passed (the table's TimeToLiveSpecification on attribute ttl).
TtlExpire ==
    \E sid \in DOMAIN sessions :
        /\ last = NoLast
        /\ sessions[sid]["ttl"] < now
        /\ sessions' = Del(sessions, sid)
        /\ expired' = expired \cup {sid}
        /\ UNCHANGED <<llm, items, now, nextId, inflight, last>>

\* The chat_history_blob of a stored session is replaced from outside the
\* handler by one that save_session did not write (a record written by
\* another version of the code, or damaged in the table).
CorruptBlob ==
    \E sid \in DOMAIN sessions, blob \in DamagedBlobs :
        /\ last = NoLast
        /\ sessions' = Put(sessions, sid, Put(sessions[sid], "chat_history_blob", blob))
        /\ UNCHANGED <<llm, items, now, nextId, inflight, last, expired>>

Init == InitWith({DefaultCatalog})

\* Requests on sessions, concurrent /chat requests included, at one instant.
Next ==
    \/ Analyze(SessionEvents, MaxSessions)
    \/ ChatBegin(SessionEvents, MaxReqs)
    \/ ChatFinish
    \/ ListItems(SessionEvents)
    \/ GetItem(SessionEvents)
    \/ Unrouted(SessionEvents)
    \/ Respond

Spec == Init /\ [][Next]_vars

\* Requests on sessions while time passes and the store expires items; one
\* /chat request at a time.
NextTtl ==
    \/ Analyze(SessionEvents, MaxSessions)
    \/ ChatBegin(SessionEvents, 1)
    \/ ChatFinish
    \/ ListItems(SessionEvents)
    \/ GetItem(SessionEvents)
    \/ Unrouted(SessionEvents)
    \/ Respond
    \/ Tick
    \/ TtlExpire

SpecTtl == Init /\ [][NextTtl]_vars

\* Every event of the model, on any catalog, with at most RouterSessions
\* sessions and RouterReqs /chat requests at a time.
InitRouter == InitWith(Catalogs)

NextRouter ==
    \/ Analyze(Events, RouterSessions)
    \/ ChatBegin(Events, RouterReqs)
    \/ ChatFinish
    \/ ListItems(Events)
    \/ GetItem(Events)
    \/ Unrouted(Events)
    \/ Respond

SpecRouter == InitRouter /\ [][NextRouter]_vars

\* Requests on one session whose stored history may be damaged, one /chat
\* request at a time.
NextCorrupt ==
    \/ Analyze(SessionEvents, CorruptSessions)
    \/ ChatBegin(SessionEvents, CorruptReqs)
    \/ ChatFinish
    \/ ListItems(SessionEvents)
    \/ GetItem(SessionEvents)
    \/ Unrouted(SessionEvents)
    \/ Respond
    \/ CorruptBlob

SpecCorrupt == Init /\ [][NextCorrupt]_vars


\* =================================================================== claims
\* The dict d gives a non-empty text under key k
Given(d, k) == k \in DOMAIN d /\ d[k] # ""

\* The parsed body of the request that has just completed
LastBody == json_loads_body(last.event).dict

Served == last # NoLast
IsAnalyze == last.by = "analyze_resume"
IsChat == last.by = "chat_follow_up"

\* The identifiers /analyze has returned in a 200 response
Issued == {uuid4(n) : n \in 1..nextId}

\* The chat history persisted for sid in the table store
StoredHistory(store, sid) ==
    IF "chat_history_blob" \in DOMAIN store[sid]
    THEN DecodeHistory(store[sid]["chat_history_blob"])
    ELSE <<>>

IsPrefix(h1, h2) == Len(h1) <= Len(h2) /\ SubSeq(h2, 1, Len(h1)) = h1

\* user, assistant, user, assistant, ... starting with a user entry
Alternates(h) ==
    \A i \in 1..Len(h) : h[i].type = (IF i % 2 = 1 THEN "human" ELSE "ai")

\* C1: a POST /chat that carries a sessionId returned by a 200 response of
\* POST /analyze, with a non-empty question, returns 200.  Stated for /chat
\* requests that met no failure of the store or the model themselves (there
\* is no expiry in Spec).
C1_RoundTrip ==
    (/\ IsChat
     /\ last.fault = ""
     /\ Given(LastBody, "question")
     /\ Given(LastBody, "sessionId")
     /\ LastBody["sessionId"] \in Issued)
    => last.resp.statusCode = 200

\* C2: every POST /chat that returns 200 appends exactly two entries to the
\* persisted history of its session: the user question, then the assistant
\* answer (so that N such calls leave a history of length 2N).
C2_ChatAppendsTwo ==
    [][(/\ last' # NoLast
        /\ last'.by = "chat_follow_up"
        /\ last'.resp.statusCode = 200)
       => LET body == json_loads_body(last'.event).dict
              sid == body["sessionId"]
          IN  /\ sid \in DOMAIN sessions
              /\ sid \in DOMAIN sessions'
              /\ StoredHistory(sessions', sid) =
                    StoredHistory(sessions, sid)
                        \o <<HumanMessage(body["question"]),
                             AIMessage(last'.resp.body.dict["answer"])>>]_vars

\* C3: the persisted history of a session is append-only (every stored
\* history is a prefix of the history stored next) and alternates user,
\* assistant, user, assistant, starting with a user entry.
C3_AppendOnlyAlternating ==
    [][/\ \A sid \in DOMAIN sessions \cap DOMAIN sessions' :
            IsPrefix(StoredHistory(sessions, sid), StoredHistory(sessions', sid))
       /\ \A sid \in DOMAIN sessions' :
            Alternates(StoredHistory(sessions', sid))]_vars

\* C4: a session whose item the store's TTL expiry has removed never has an
\* item in the store again, and every /analyze creates its item under an
\* identifier that no session, stored or expired, has had.
C4_ExpiredStaysExpired ==
    [][/\ \A sid \in expired' : sid \notin DOMAIN sessions'
       /\ nextId' # nextId =>
            uuid4(nextId') \notin (DOMAIN sessions \cup expired)]_vars

\* The step is the arrival of the /chat request event: its read of the
\* session happens in this step, and it either completes here or goes on to
\* the model call.
ChatArrives(event) ==
    \/ /\ last' # NoLast
       /\ last'.by = "chat_follow_up"
       /\ last'.stage = "load"
       /\ last'.event = event
    \/ \E req \in BagToSet(inflight') :
          /\ req.event = event
          /\ CopiesIn(req, inflight') > CopiesIn(req, inflight)

\* C5: a POST /chat request that arrives after the ttl timestamp of its
\* session has passed returns 404.  Stated for requests with a non-empty
\* question on a session with a non-empty analysis, with the model client
\* initialized.
C5_ChatAfterTtlIs404 ==
    [][\A event \in ChatEvents :
        LET body == json_loads_body(event).dict
        IN  (/\ llm
             /\ Given(body, "question")
             /\ Given(body, "sessionId")
             /\ body["sessionId"] \in DOMAIN sessions
             /\ sessions[body["sessionId"]]["ttl"] < now
             /\ Given(sessions[body["sessionId"]], "initialAnalysis")
             /\ ChatArrives(event))
            => (/\ last' # NoLast
                /\ last'.event = event
                /\ last'.resp.statusCode = 404)]_vars

\* GET on a path under /items/
IsItemRoute(event) ==
    event.method = "GET" /\ StartsWith(event.path, <<"/", "items", "/">>)

\* /items/{id} with a non-empty id path parameter
WellFormedItemRequest(event) ==
    /\ Len(Split(event.path)) = 3
    /\ event.pathParameters.kind = "dict"
    /\ Given(event.pathParameters.dict, "id")

\* C6: the router dispatches POST /analyze to analyze_resume, POST /chat to
\* chat_follow_up, GET /items to get_all_default_items and GET /items/{id} to
\* get_default_item; an item request with a malformed path parameter yields
\* 400 and every other method and path yields 404.  Stated for events that
\* carry a method and a path.
C6_RouterDispatch ==
    (Served /\ last.event.hasContext) =>
        LET event == last.event
        IN  IF event.method = "POST" /\ event.path = <<"/", "analyze">>
            THEN last.by = "analyze_resume"
            ELSE IF event.method = "POST" /\ event.path = <<"/", "chat">>
            THEN last.by = "chat_follow_up"
            ELSE IF event.method = "GET" /\ event.path = <<"/", "items">>
            THEN last.by = "get_all_default_items"
            ELSE IF IsItemRoute(event)
            THEN IF WellFormedItemRequest(event)
                 THEN last.by = "get_default_item"
                 ELSE last.by = "handler" /\ last.resp.statusCode = 400
            ELSE last.by = "handler" /\ last.resp.statusCode = 404

\* C7: the entry point never propagates a fault: every event, whatever its
\* fields and whatever call of the store or the model fails, gets a response
\* with status 200, 400, 404, 500 or 503, and an exception that no more
\* specific branch handles (the routing code raising, a body that is null or
\* not an object, the model call failing) gets 500.
C7_NoFaultPropagates ==
    Served =>
        /\ last.resp.statusCode \in {200, 400, 404, 500, 503}
        /\ route(last.event) = "raise" => last.resp.statusCode = 500
        /\ last.fault = "llm" => last.resp.statusCode = 500
        /\ (/\ (IsAnalyze \/ IsChat)
            /\ llm
            /\ last.event.body.kind \in {"null", "nonobject"})
           => last.resp.statusCode = 500

\* C7 witness: an event without requestContext has been answered with 500.
C7_Witness ==
    /\ Served
    /\ ~last.event.hasContext
    /\ last.by = "handler"
    /\ last.resp.statusCode = 500

\* The request that has just completed lacks a required field: resume or
\* job_description for /analyze, question or sessionId for /chat.
MissingRequired(l) ==
    LET body == json_loads_body(l.event).dict
    IN  \/ /\ l.by = "analyze_resume"
           /\ ~Given(body, "resume") \/ ~Given(body, "job_description")
        \/ /\ l.by = "chat_follow_up"
           /\ ~Given(body, "question") \/ ~Given(body, "sessionId")

\* C8: POST /analyze without a non-empty resume and job_description, and
\* POST /chat without a non-empty sessionId and question, return 400 without
\* invoking the model or writing a session.  Stated for requests served while
\* the model client is initialized (without it both routes answer 503).
C8_RequiredFields ==
    (Served /\ llm /\ MissingRequired(last)) =>
        /\ last.resp.statusCode = 400
        /\ last.llmCalls = 0
        /\ last.writes = 0

\* C9: when the model client was never initialized, every POST /analyze and
\* POST /chat returns 503 without invoking the model and without reading or
\* writing the session store, and no session exists.
C9_Unavailable503 ==
    ~llm =>
        /\ (Served /\ last.event.hasContext /\ last.event.method = "POST"
                /\ last.event.path \in {<<"/", "analyze">>, <<"/", "chat">>})
           => (/\ last.resp.statusCode = 503
               /\ last.llmCalls = 0
               /\ last.reads = 0
               /\ last.writes = 0)
        /\ sessions = EmptyDict
        /\ nextId = 0
        /\ inflight = EmptyBag

\* C9 witness: without the client, a well-formed POST /analyze has been
\* answered with 503.
C9_Witness ==
    /\ ~llm
    /\ IsAnalyze
    /\ Given(LastBody, "resume")
    /\ Given(LastBody, "job_description")
    /\ last.resp.statusCode = 503

\* The /chat request l did its read of the session in the present state,
\* asked for a non-empty sessionId, and the store holds no item under it.
ChatOnNoRecord(l, store) ==
    LET body == json_loads_body(l.event).dict
    IN  /\ l.by = "chat_follow_up"
        /\ l.stage = "load"
        /\ Given(body, "sessionId")
        /\ body["sessionId"] \notin DOMAIN store

\* C10 as claimed: POST /chat with a sessionId that has no record in the
\* store returns 404, without invoking the model or writing to the store.
C10_Original ==
    (Served /\ ChatOnNoRecord(last, sessions)) =>
        /\ last.resp.statusCode = 404
        /\ last.llmCalls = 0
        /\ last.writes = 0

\* C10 as amended: when the model client is initialized and the question is
\* non-empty, POST /chat with a sessionId that has no record in the store
\* returns 404, without invoking the model and leaving the store unchanged.
C10_UnknownSession404 ==
    [][(/\ last' # NoLast
        /\ llm
        /\ Given(json_loads_body(last'.event).dict, "question")
        /\ ChatOnNoRecord(last', sessions))
       => (/\ last'.resp.statusCode = 404
           /\ last'.llmCalls = 0
           /\ last'.writes = 0
           /\ sessions' = sessions)]_vars

\* C10 witness: with the client initialized, a POST /chat with a question and
\* a sessionId never issued has been answered with 404, its one read of the
\* store having succeeded.
C10_Witness ==
    /\ Served
    /\ llm
    /\ IsChat
    /\ Given(LastBody, "question")
    /\ Given(LastBody, "sessionId")
    /\ LastBody["sessionId"] = UnknownId
    /\ last.reads = 1
    /\ last.fault = ""
    /\ last.resp.statusCode = 404

\* C11: a POST /chat whose read of the session store (get_item) fails returns
\* 500.
C11_ReadFailure500 ==
    (Served /\ IsChat /\ last.fault = "read") => last.resp.statusCode = 500

\* C12: a POST /analyze or POST /chat whose save of the session (put_item)
\* fails returns 500, so that a 200 implies the record was persisted.
C12_WriteFailure500 ==
    (Served /\ (IsAnalyze \/ IsChat) /\ last.fault = "write")
        => last.resp.statusCode = 500

\* The stored item lacks a non-empty resume, jobDescription or initialAnalysis
Corrupted(item) ==
    ~(/\ Given(item, "resume")
      /\ Given(item, "jobDescription")
      /\ Given(item, "initialAnalysis"))

\* C13: a POST /chat on a stored session whose resume, jobDescription or
\* initialAnalysis is missing or empty returns 500 without invoking the model
\* or writing the record.  Stated for requests with a non-empty question,
\* served while the model client is initialized.
C13_CorruptedRecord500 ==
    (/\ Served
     /\ IsChat
     /\ last.stage = "load"
     /\ llm
     /\ Given(LastBody, "question")
     /\ Given(LastBody, "sessionId")
     /\ LastBody["sessionId"] \in DOMAIN sessions
     /\ Corrupted(sessions[LastBody["sessionId"]]))
    => (/\ last.resp.statusCode = 500
        /\ last.llmCalls = 0
        /\ last.writes = 0)

\* The stored item holds a history blob that does not deserialize to a list
\* of messages
Undecodable(item) ==
    /\ "chat_history_blob" \in DOMAIN item
    /\ \/ pickle_error(item["chat_history_blob"]) # ""
       \/ ~IsMessageList(item["chat_history_blob"].payload)

\* C14: a POST /chat that arrives for a stored session whose history blob
\* cannot be deserialized loads the session with the history reset to empty
\* and every other field intact, and goes on to the model call (it is not
\* answered 404 or 500).  Stated for a session with its context fields, a
\* request with a non-empty question and a get_item that succeeds.
C14_UndecodableHistoryRecovers ==
    [][\A event \in ChatEvents :
        LET body == json_loads_body(event).dict
        IN  (/\ llm
             /\ Given(body, "question")
             /\ Given(body, "sessionId")
             /\ body["sessionId"] \in DOMAIN sessions
             /\ ~Corrupted(sessions[body["sessionId"]])
             /\ Undecodable(sessions[body["sessionId"]])
             /\ ChatArrives(event)
             /\ last'.fault # "read")
            => (/\ last' = NoLast
                /\ \E req \in BagToSet(inflight') :
                      /\ req.event = event
                      /\ req.session_data =
                            Del(Put(sessions[body["sessionId"]], "chat_history", <<>>),
                                "chat_history_blob"))]_vars

\* C15: when POST /analyze returns 200 the response carries the new session
\* identifier as body field sessionId and as header X-Session-Id, with equal
\* values, and the session record is stored under that value; the responses
\* of /chat, GET /items and GET /items/{id} carry no X-Session-Id header.
C15_SessionIdHeader ==
    Served =>
        /\ (IsAnalyze /\ last.resp.statusCode = 200) =>
              /\ "sessionId" \in DOMAIN last.resp.body.dict
              /\ "X-Session-Id" \in DOMAIN last.resp.headers
              /\ last.resp.headers["X-Session-Id"] = last.resp.body.dict["sessionId"]
              /\ last.resp.headers["X-Session-Id"] \in DOMAIN sessions
              /\ sessions[last.resp.headers["X-Session-Id"]]["sessionId"]
                    = last.resp.headers["X-Session-Id"]
        /\ last.by \in {"chat_follow_up", "get_all_default_items", "get_default_item"}
              => "X-Session-Id" \notin DOMAIN last.resp.headers

\* The id path parameter of the item request that has just completed, and the
\* catalog records stored under it
RequestedId == last.event.pathParameters.dict["id"]
RecordsOf(id) == {i \in 1..Len(items) : items[i]["id"] = id}

\* C16 as claimed: GET /items/{id} returns 404 for an id without a record in
\* the catalog, and for an id with a record 200 with that id and the stored
\* content of the record.
C16_Original ==
    (Served /\ last.by = "get_default_item") =>
        IF RecordsOf(RequestedId) = {}
        THEN last.resp.statusCode = 404
        ELSE /\ last.resp.statusCode = 200
             /\ last.resp.body.dict["id"] = RequestedId
             /\ \E i \in RecordsOf(RequestedId) :
                   /\ "content" \in DOMAIN items[i]
                   /\ last.resp.body.dict["content"] = items[i]["content"]

\* C16 as amended: when the read of the catalog succeeds, GET /items/{id}
\* returns 404 for an id without a record, and for an id with a record 200
\* with that id and the stored content of the record, or the text
\* "Error: Content missing" when the record has no content.
C16_GetItem ==
    (Served /\ last.by = "get_default_item" /\ last.fault = "") =>
        IF RecordsOf(RequestedId) = {}
        THEN last.resp.statusCode = 404
        ELSE /\ last.resp.statusCode = 200
             /\ last.resp.body.dict["id"] = RequestedId
             /\ \E i \in RecordsOf(RequestedId) :
                   last.resp.body.dict["content"] =
                      IF "content" \in DOMAIN items[i]
                      THEN items[i]["content"]
                      ELSE "Error: Content missing"

\* C16 witness: GET /items/a, whose record has a content, has been answered
\* 200 with that content.
C16_Witness ==
    /\ Served
    /\ last.by = "get_default_item"
    /\ RequestedId = "a"
    /\ last.resp.statusCode = 200
    /\ last.resp.body.dict["id"] = "a"
    /\ last.resp.body.dict["content"] = "text a"

\* C17: a POST /chat that returns 200 after a successful put_item leaves as
\* the stored history of its session the history it had loaded followed by
\* its own question and answer, whatever the table held when it wrote, and
\* touches no other record: when two requests have loaded the same history,
\* the later write replaces the pair of the earlier one.
C17_LastWriterWins ==
    [][(/\ last' # NoLast
        /\ last'.by = "chat_follow_up"
        /\ last'.stage = "reply"
        /\ last'.resp.statusCode = 200
        /\ last'.fault = "")
       => LET body == json_loads_body(last'.event).dict
              sid == body["sessionId"]
          IN  \E req \in BagToSet(inflight) :
                /\ req.event = last'.event
                /\ CopiesIn(req, inflight') < CopiesIn(req, inflight)
                /\ sid \in DOMAIN sessions'
                /\ StoredHistory(sessions', sid) =
                      req.session_data["chat_history"]
                          \o <<HumanMessage(body["question"]),
                               AIMessage(last'.resp.body.dict["answer"])>>
                /\ sessions' = Put(sessions, sid, sessions'[sid])]_vars

\* C17 witness: a /chat has returned 200 and its write has replaced a stored
\* history of one question and answer, written by another /chat that returned
\* 200, with its own question and answer: one of the two pairs is lost.
C17_Witness ==
    /\ Served
    /\ IsChat
    /\ last.stage = "reply"
    /\ last.resp.statusCode = 200
    /\ last.fault = ""
    /\ LastBody["sessionId"] \in DOMAIN last.before
    /\ LastBody["sessionId"] \in DOMAIN sessions
    /\ LET old == StoredHistory(last.before, LastBody["sessionId"])
           new == StoredHistory(sessions, LastBody["sessionId"])
       IN  /\ Len(old) = 2
           /\ Len(new) = 2
           /\ old[1].content # new[1].content
           /\ new[1] = HumanMessage(LastBody["question"])

\* C18: sliding expiry.  A POST /chat that returns 200 leaves the record of
\* its session with ttl equal to the present time plus SESSION_TTL_HOURS, so
\* that the store cannot expire the session within 24 hours of a successful
\* /chat.
C18_SlidingTtl ==
    (/\ Served
     /\ IsChat
     /\ last.stage = "reply"
     /\ last.resp.statusCode = 200
     /\ LastBody["sessionId"] \in DOMAIN sessions)
    => sessions[LastBody["sessionId"]]["ttl"] = now + SESSION_TTL_HOURS

\* C19: every request invokes the model at most once, and a request whose
\* model call fails returns 500 after that one call, writes nothing and
\* leaves the sessions table as it was: /analyze creates no session and takes
\* no identifier, /chat leaves the stored record unchanged.
C19_ModelFailureTerminal ==
    [][last' # NoLast =>
        /\ last'.llmCalls <= 1
        /\ last'.fault = "llm" =>
              /\ last'.by \in {"analyze_resume", "chat_follow_up"}
              /\ last'.resp.statusCode = 500
              /\ last'.llmCalls = 1
              /\ last'.writes = 0
              /\ sessions' = sessions
              /\ nextId' = nextId]_vars

\* C19 witness: the model call of a /chat on a stored session has failed; the
\* request has been answered 500 and the table is as the request found it.
C19_Witness ==
    /\ Served
    /\ IsChat
    /\ last.fault = "llm"
    /\ last.resp.statusCode = 500
    /\ LastBody["sessionId"] \in DOMAIN sessions
    /\ sessions = last.before

\* C20: a POST /analyze that returns 200 has invoked the model once and has
\* created one session record, under the identifier it returns: the record is
\* new, its history is empty, its resume, jobDescription and initialAnalysis
\* are the resume and job_description of the request and the analysis
\* returned, and every record that existed is unchanged.
C20_AnalyzeCreatesOne ==
    [][(/\ last' # NoLast
        /\ last'.by = "analyze_resume"
        /\ last'.resp.statusCode = 200)
       => LET body == json_loads_body(last'.event).dict
              sid == last'.resp.body.dict["sessionId"]
          IN  /\ last'.llmCalls = 1
              /\ sid \notin DOMAIN sessions
              /\ DOMAIN sessions' = DOMAIN sessions \cup {sid}
              /\ \A k \in DOMAIN sessions : sessions'[k] = sessions[k]
              /\ StoredHistory(sessions', sid) = <<>>
              /\ sessions'[sid]["resume"] = body["resume"]
              /\ sessions'[sid]["jobDescription"] = body["job_description"]
              /\ sessions'[sid]["initialAnalysis"] = last'.resp.body.dict["analysis"]]_vars

\* The step belongs to a POST /chat request: it completes one, or admits one
\* to the model call.
IsChatStep ==
    \/ last' # NoLast /\ last'.by = "chat_follow_up"
    \/ BagCardinality(inflight') > BagCardinality(inflight)

\* The attributes of a session record that a /chat may not change, and those
\* it may (chat_history is stored as chat_history_blob)
KeptFields == {"sessionId", "resume", "jobDescription", "initialAnalysis", "createdAt"}
WrittenFields == {"chat_history_blob", "lastUpdated", "ttl"}

\* C21: a POST /chat changes no catalog record, creates no identifier, and
\* changes the sessions table at most at the session named in the request,
\* by the write that ends the request: the record then stored has the
\* sessionId, resume, jobDescription, initialAnalysis and createdAt that the
\* request loaded, and differs from the record it replaces at most in
\* chat_history_blob, lastUpdated and ttl.
C21_ChatFrame ==
    [][IsChatStep =>
        /\ items' = items
        /\ nextId' = nextId
        /\ \A k \in DOMAIN sessions \cup DOMAIN sessions' :
              (k \notin DOMAIN sessions \cap DOMAIN sessions' \/ sessions'[k] # sessions[k])
              => /\ last' # NoLast
                 /\ last'.stage = "reply"
                 /\ k = json_loads_body(last'.event).dict["sessionId"]
                 /\ k \in DOMAIN sessions'
                 /\ \E req \in BagToSet(inflight) :
                       /\ req.event = last'.event
                       /\ CopiesIn(req, inflight') < CopiesIn(req, inflight)
                       /\ \A f \in KeptFields :
                             /\ f \in DOMAIN req.session_data
                             /\ f \in DOMAIN sessions'[k]
                             /\ sessions'[k][f] = req.session_data[f]
                 /\ k \in DOMAIN sessions =>
                       \A f \in (DOMAIN sessions[k] \cup DOMAIN sessions'[k]) \ WrittenFields :
                             /\ f \in DOMAIN sessions[k]
                             /\ f \in DOMAIN sessions'[k]
                             /\ sessions'[k][f] = sessions[k][f]]_vars

\* C21 witness: with two sessions stored, a /chat on one of them has returned
\* 200 and has changed its record; the other record is as it was.
C21_Witness ==
    /\ Served
    /\ IsChat
    /\ last.stage = "reply"
    /\ last.resp.statusCode = 200
    /\ Cardinality(DOMAIN sessions) = 2
    /\ DOMAIN last.before = DOMAIN sessions
    /\ sessions[LastBody["sessionId"]] # last.before[LastBody["sessionId"]]
    /\ \A k \in DOMAIN sessions \ {LastBody["sessionId"]} : sessions[k] = last.before[k]

\* The catalog records that have both an id and a name, in the order of the
\* table, each reduced to its id and name
HasIdAndName(item) == "id" \in DOMAIN item /\ "name" \in DOMAIN item
Listing ==
    LET kept == SelectSeq(items, HasIdAndName)
    IN  [i \in 1..Len(kept) |-> [id |-> kept[i]["id"], name |-> kept[i]["name"]]]

\* C22: GET /items, whatever the size of the scan pages, ends with a
\* response: 500 when a scan call has failed, and otherwise 200 with the
\* list, over all pages, of the records that have both an id and a name, each
\* once and in scan order, the records lacking an id or a name left out.
C22_ListItems ==
    (Served /\ last.by = "get_all_default_items") =>
        /\ last.fault \in {"", "scan"}
        /\ last.fault = "scan" => last.resp.statusCode = 500
        /\ last.fault = "" =>
              /\ last.resp.statusCode = 200
              /\ last.resp.body.kind = "list"
              /\ last.resp.body.list = Listing

\* C22 witness: GET /items on a catalog of three records, which no scan page
\* of the model holds whole, has returned 200 with the two records that have
\* an id and a name, the record without a name left out.
C22_Witness ==
    /\ Served
    /\ last.by = "get_all_default_items"
    /\ last.resp.statusCode = 200
    /\ Len(items) > MaxPage
    /\ Len(last.resp.body.list) = 2
    /\ \E i \in 1..Len(items) : ~HasIdAndName(items[i])

====
